---- MODULE Spec2Model ----
(***************************************************************************)
(* The word-guessing pipeline of main.py: build a query, look phrases up   *)
(* remotely, clean the records, lemmatize and sum, score, annotate, print. *)
(*                                                                         *)
(* Representation.  The anchor word, the query and the lines typed at the  *)
(* console are sequences of one-character strings, so that percent-        *)
(* encoding and lower-casing work character by character.  Token texts and *)
(* candidate texts are strings, joined with \o.  A pair (text, weight) is  *)
(* the tuple <<text, weight>>.  Match-counts are naturals.  A relevance    *)
(* score is an integer number of ten-thousandths (0.001 is 10).  A         *)
(* percentage is kept as the fraction [num, den] = weight * 100 / total;  *)
(* the double the code holds is computed from it where it is printed.     *)
(***************************************************************************)
EXTENDS Integers, Sequences, FiniteSets, TLC

VARIABLES
    pc,                 \* the next step of the run
    entry,              \* "run_module" or "run_with_input"
    input_word,         \* the anchor word
    list_position,      \* "before" or "after"
    num_words,          \* the wildcard count
    typed,              \* the lines read by before_or_after, in order
    prompts,            \* calls of input() made by before_or_after
    invalid_msgs,       \* "Invalid character" lines printed
    requests,           \* HTTP requests issued
    logged,             \* logging.error calls
    lookup_failed,      \* the lookup raised a RequestException
    params,             \* the query string sent
    response_list,      \* what get_response_list returned
    responses,          \* what collect_responses returned
    answer,             \* what lemmatize_and_sum returned
    score,              \* what score_generator returned
    scores_with_result, \* what add_stopword_result returned
    printed,            \* the lines of the printed block
    returned,           \* the list the entry point returned
    fault               \* the exception that ended the run, or "none"

vars == <<pc, entry, input_word, list_position, num_words, typed, prompts,
          invalid_msgs, requests, logged, lookup_failed, params, response_list,
          responses, answer, score, scores_with_result, printed, returned, fault>>

----------------------------------------------------------------------------
(* Bounds of the model *)

MaxNumWords == 2    \* wildcard counts 0..MaxNumWords
MaxWordLen == 2     \* characters of an anchor word (query specification)
MaxTokens == 3      \* tokens of a phrase record (cleaner specification)
MaxRecords == 1     \* phrase records of a response (cleaner specification)
MaxPhrases == 3     \* phrase records of a response (whole run)
MaxPairs == 3       \* pairs of a list given to one stage
MaxCount == 2       \* weights 0..MaxCount of the pairs given to one stage
MaxPrompts == 2     \* lines read by before_or_after

----------------------------------------------------------------------------
(* Sequences and Python slices *)

RECURSIVE SumWeights(_)
\* sum(w[1] for w in words)
SumWeights(words) ==
    IF words = <<>> THEN 0 ELSE Head(words)[2] + SumWeights(Tail(words))

SeqsUpTo(S, n) == UNION {[1..k -> S] : k \in 0..n}

Min(a, b) == IF a < b THEN a ELSE b
Max(a, b) == IF a > b THEN a ELSE b

\* a slice bound i of a sequence of length n, as Python clamps it
SliceIndex(i, n) == IF i < 0 THEN Max(i + n, 0) ELSE Min(i, n)

\* s[start:stop], 0-based as in Python
PySlice(s, start, stop) ==
    LET lo == SliceIndex(start, Len(s))
        hi == SliceIndex(stop, Len(s))
    IN  IF lo < hi THEN SubSeq(s, lo + 1, hi) ELSE <<>>

----------------------------------------------------------------------------
(* Query Builder: get_response_list, lines 29-37 *)

Positions == {"before", "after"}

\* characters an anchor word is drawn from, with their code points
CharCode == [c \in {"a", "A", "4", "1", "%", " ", "?", "/"} |->
    CASE c = "a" -> 97 [] c = "A" -> 65 [] c = "4" -> 52 [] c = "1" -> 49
      [] c = "%" -> 37 [] c = " " -> 32 [] c = "?" -> 63 [] c = "/" -> 47]

WordChars == {"a", "4", "1", "%", " ", "?", "/"}

\* urllib.parse.quote leaves letters, digits, "_.-~" and "/" alone
SafeChars == {"a", "A", "4", "1", "/"}

HexDigits == <<"0", "1", "2", "3", "4", "5", "6", "7", "8", "9",
               "A", "B", "C", "D", "E", "F">>

HexValue(c) ==
    IF c = "a" THEN 10
    ELSE IF \E i \in 1..16 : HexDigits[i] = c
         THEN (CHOOSE i \in 1..16 : HexDigits[i] = c) - 1
         ELSE 0 - 1

IsHex(c) == HexValue(c) >= 0

\* the character of a code point; U+FFFD (written "#") when the model has none
Chr(n) ==
    IF \E c \in DOMAIN CharCode : CharCode[c] = n
    THEN CHOOSE c \in DOMAIN CharCode : CharCode[c] = n
    ELSE "#"

PercentByte(n) == <<"%", HexDigits[(n \div 16) + 1], HexDigits[(n % 16) + 1]>>

RECURSIVE quote(_)
\* urllib.parse.quote(s)
quote(s) ==
    IF s = <<>> THEN <<>>
    ELSE (IF Head(s) \in SafeChars THEN <<Head(s)>>
          ELSE PercentByte(CharCode[Head(s)])) \o quote(Tail(s))

RECURSIVE unquote(_)
\* urllib.parse.unquote(s)
unquote(s) ==
    IF s = <<>> THEN <<>>
    ELSE IF Head(s) = "%" /\ Len(s) >= 3 /\ IsHex(s[2]) /\ IsHex(s[3])
         THEN <<Chr(16 * HexValue(s[2]) + HexValue(s[3]))>>
              \o unquote(SubSeq(s, 4, Len(s)))
         ELSE <<Head(s)>> \o unquote(Tail(s))

\* n * '?'
Repeat(c, n) == [i \in 1..n |-> c]

RECURSIVE JoinChars(_)
\* ' '.join(items), for a list of character sequences
JoinChars(items) ==
    IF items = <<>> THEN <<>>
    ELSE IF Len(items) = 1 THEN items[1]
    ELSE items[1] \o <<" ">> \o JoinChars(Tail(items))

\* ' '.join([num_words * '?']): the list has ONE element, the run of n marks
bracket_words(n) == JoinChars(<<Repeat("?", n)>>)

\* the f-string that is percent-encoded
QueryPattern(word, position, n) ==
    IF position = "before"
    THEN bracket_words(n) \o <<" ">> \o word
    ELSE word \o <<" ">> \o bracket_words(n)

encoded_query(word, position, n) == quote(QueryPattern(word, position, n))

\* the two parameters joined into the query string
QueryParams(word, position, n) ==
    [corpus |-> "eng-gb", query |-> encoded_query(word, position, n)]

----------------------------------------------------------------------------
(* Linguistic resources: the word list, the stopword set, the lemmatizer *)

\* token texts a phrase record may carry; "" and "zzq" are in no word list
DictionaryWords == {"a", "as", "man"}
StopWords == {"a", "as"}

\* word in wd.words()
is_word(word) == word \in DictionaryWords

\* the membership test with its polarity lost
is_stopword(word) == word \in StopWords

\* word not in set(stopwords.words('english'))
is_not_stopword(word) == word \notin StopWords

\* wordnet_lemmatizer.lemmatize(text): the noun rule strips the "s" of "as";
\* a text with a space in it is no WordNet lemma and comes back unchanged
lemmatize(text) == IF text = "as" THEN "a" ELSE text

----------------------------------------------------------------------------
(* Response Cleaner: collect_responses *)

Threshold == 10     \* 0.001, in ten-thousandths

RECURSIVE JoinTexts(_)
\* ' '.join(texts), for a list of strings
JoinTexts(texts) ==
    IF texts = <<>> THEN ""
    ELSE IF Len(texts) = 1 THEN texts[1]
    ELSE texts[1] \o " " \o JoinTexts(Tail(texts))

\* the slice of the 'before' case without its stop, so that it takes the anchor
answer_words_to_end(response, position, n) ==
    IF position = "after"
    THEN PySlice(response.tks, 1, Len(response.tks))
    ELSE PySlice(response.tks, (0 - 1) - n, Len(response.tks))

\* response['tks'][1:] or response['tks'][-1 - num_words:-1]; a token is its 'tt'
answer_words(response, position, n) ==
    IF position = "after"
    THEN PySlice(response.tks, 1, Len(response.tks))
    ELSE PySlice(response.tks, (0 - 1) - n, 0 - 1)

\* the condition of line 96 with >= for >
KeptAtThreshold(response, position, n) ==
    /\ response.sc >= Threshold
    /\ \A i \in 1..Len(answer_words(response, position, n)) :
           is_word(answer_words(response, position, n)[i])

\* the condition of line 96
Kept(response, position, n) ==
    /\ response.sc > Threshold
    /\ \A i \in 1..Len(answer_words(response, position, n)) :
           is_word(answer_words(response, position, n)[i])

RECURSIVE collect_responses(_, _, _)
collect_responses(list, position, n) ==
    IF list = <<>> THEN <<>>
    ELSE (IF Kept(Head(list), position, n)
          THEN << <<JoinTexts(answer_words(Head(list), position, n)),
                    Head(list).mc>> >>
          ELSE <<>>) \o collect_responses(Tail(list), position, n)

----------------------------------------------------------------------------
(* Normalizer/Aggregator: lemmatize_and_sum *)

\* d[k] = v for d[k] += v
AddToOverwrite(d, k, v) ==
    IF \E i \in 1..Len(d) : d[i][1] = k
    THEN [i \in 1..Len(d) |-> IF d[i][1] = k THEN <<k, v>> ELSE d[i]]
    ELSE Append(d, <<k, v>>)

\* d[k] += v on a dict kept as its items in insertion order
AddTo(d, k, v) ==
    IF \E i \in 1..Len(d) : d[i][1] = k
    THEN [i \in 1..Len(d) |-> IF d[i][1] = k THEN <<k, d[i][2] + v>> ELSE d[i]]
    ELSE Append(d, <<k, 0 + v>>)

RECURSIVE SumByKey(_, _)
\* the loop of lines 114-115
SumByKey(d, lst) ==
    IF lst = <<>> THEN d
    ELSE SumByKey(AddTo(d, Head(lst)[1], Head(lst)[2]), Tail(lst))

\* x put into a list sorted by weight descending, after its equals (stable)
InsertDesc(sorted, x) ==
    LET n == Cardinality({i \in 1..Len(sorted) : sorted[i][2] >= x[2]})
    IN  SubSeq(sorted, 1, n) \o <<x>> \o SubSeq(sorted, n + 1, Len(sorted))

RECURSIVE SortDesc(_, _)
\* sorted(items, key=lambda x: x[1], reverse=True)
SortDesc(done, items) ==
    IF items = <<>> THEN done
    ELSE SortDesc(InsertDesc(done, Head(items)), Tail(items))

lemmatized_lst(words) ==
    [i \in 1..Len(words) |-> <<lemmatize(words[i][1]), words[i][2]>>]

\* the items of the dict returned without the sort
lemmatize_and_sum_unsorted(words) == SumByKey(<<>>, lemmatized_lst(words))

lemmatize_and_sum(words) == SortDesc(<<>>, SumByKey(<<>>, lemmatized_lst(words)))

----------------------------------------------------------------------------
(* Scorer: score_generator *)

\* w / total_score, the factor 100 forgotten
PercentageAsShare(w, total_score) == [num |-> w, den |-> total_score]

\* (w / total_score) * 100 as an exact fraction
Percentage(w, total_score) == [num |-> w * 100, den |-> total_score]

\* a zero total raises even when no division is reached
RaisesOnZeroTotal(words) == SumWeights(words) = 0

\* the division is by the pair's own weight
RaisesOnZeroWeight(words) == \E i \in 1..Len(words) : words[i][2] = 0

\* the division of line 132 is reached with a zero total
score_generator_raises(words) == words # <<>> /\ SumWeights(words) = 0

score_generator(words) ==
    [i \in 1..Len(words) |->
        <<words[i][1], Percentage(words[i][2], SumWeights(words))>>]

----------------------------------------------------------------------------
(* Stopword Annotator and Presentation: add_stopword_result, run_module *)

add_stopword_result(scores) ==
    [i \in 1..Len(scores) |->
        <<scores[i][1], scores[i][2], is_not_stopword(scores[i][1])>>]

\* The float (w / total_score) * 100 is computed as IEEE-754 doubles compute
\* it: each operation rounds its exact result to 53 significant bits, ties to
\* even.  A mantissa is a natural kept as its base-2^13 limbs, lowest first.
Limb == 2^13

BigIsZero(b) == \A i \in 1..Len(b) : b[i] = 0

RECURSIVE BigInc(_)
\* b + 1
BigInc(b) ==
    IF b = <<>> THEN <<1>>
    ELSE IF Head(b) + 1 < Limb THEN <<Head(b) + 1>> \o Tail(b)
    ELSE <<0>> \o BigInc(Tail(b))

RECURSIVE BigMul(_, _, _)
\* b * m + carry, for a small m
BigMul(b, m, carry) ==
    IF b = <<>> THEN (IF carry = 0 THEN <<>> ELSE <<carry>>)
    ELSE <<(Head(b) * m + carry) % Limb>>
         \o BigMul(Tail(b), m, (Head(b) * m + carry) \div Limb)

RECURSIVE BigToInt(_)
BigToInt(b) == IF b = <<>> THEN 0 ELSE Head(b) + Limb * BigToInt(Tail(b))

\* b / 2^n rounded to the nearest natural, ties to even
BigShiftRound(b, n) ==
    LET a == n \div 13
        s == n % 13
        rest == SubSeq(b, a + 1, Len(b))
        limb(i) == IF i <= Len(rest) THEN rest[i] ELSE 0
        q == [i \in 1..Len(rest) |->
                (limb(i) \div 2^s) + (limb(i + 1) % 2^s) * 2^(13 - s)]
        \* the part dropped, against half a unit of q
        dropped ==
            IF n = 0 THEN "below"
            ELSE IF s > 0
            THEN LET r == limb(1) % 2^s
                     h == 2^(s - 1)
                 IN  IF r > h THEN "above" ELSE IF r < h THEN "below"
                     ELSE IF BigIsZero(SubSeq(b, 1, a)) THEN "tie" ELSE "above"
            ELSE LET t == IF a <= Len(b) THEN b[a] ELSE 0
                     h == 2^12
                 IN  IF t > h THEN "above" ELSE IF t < h THEN "below"
                     ELSE IF BigIsZero(SubSeq(b, 1, a - 1)) THEN "tie" ELSE "above"
        odd == q # <<>> /\ q[1] % 2 = 1
    IN  IF dropped = "above" \/ (dropped = "tie" /\ odd) THEN BigInc(q) ELSE q

RECURSIVE Doublings(_, _)
\* the least k with total <= w * 2^k, for 0 < w
Doublings(w, total) == IF w >= total THEN 0 ELSE 1 + Doublings(2 * w, total)

\* the mantissa M of the double w / total, which is M * 2^-(52 + k) with
\* k = Doublings(w, total); for 0 < w <= total
DivMantissa(w, total) ==
    LET r0 == w * 2^Doublings(w, total) - total
        l1 == (r0 * Limb) \div total
        r1 == (r0 * Limb) % total
        l2 == (r1 * Limb) \div total
        r2 == (r1 * Limb) % total
        l3 == (r2 * Limb) \div total
        r3 == (r2 * Limb) % total
        l4 == (r3 * Limb) \div total
        r4 == (r3 * Limb) % total
        m == <<l4, l3, l2, l1, 1>>
    IN  IF 2 * r4 > total \/ (2 * r4 = total /\ l4 % 2 = 1) THEN BigInc(m) ELSE m

\* the double (w / total) * 100 in hundredths, rounded as "%.2f" rounds the
\* exact value of the double; for 0 <= w <= total
Hundredths(w, total) ==
    IF w = 0 THEN 0
    ELSE LET k == Doublings(w, total)
             prod == BigMul(DivMantissa(w, total), 100, 0)
             s == IF prod[5] < 128 THEN 6 ELSE 7
             my == BigShiftRound(prod, s)   \* (w / total) * 100 is my * 2^(s-52-k)
         IN  BigToInt(BigShiftRound(BigMul(my, 100, 0), (52 + k) - s))

\* f"{p:.2f}" for the percentage p of a weight p.num / 100 in a total p.den
Format2f(p) ==
    LET h == Hundredths(p.num \div 100, p.den)
    IN  ToString(h \div 100) \o "." \o ToString((h % 100) \div 10)
            \o ToString(h % 10)

\* one element of results_str, line 192
ResultLine(w) ==
    "  " \o w[1] \o " " \o Format2f(w[2]) \o "%"
         \o (IF ~w[3] THEN " STOPWORD" ELSE "")

results_str(scored) == [i \in 1..Len(scored) |-> ResultLine(scored[i])]

----------------------------------------------------------------------------
(* Console input: before_or_after, how_many_more_words *)

\* lines the user may type at the position prompt
TypedLines == {<<"b">>, <<"B">>, <<"a">>, <<"A">>, <<"x">>, <<>>, <<"a", "b">>}

\* the line as typed, .lower() forgotten
not_lowered(s) == s

\* str.lower()
lower(s) ==
    [i \in 1..Len(s) |->
        IF s[i] = "A" THEN "a" ELSE IF s[i] = "B" THEN "b" ELSE s[i]]

DecimalDigits == <<"0", "1", "2", "3", "4", "5", "6", "7", "8", "9">>

DigitValue(c) == (CHOOSE i \in 1..10 : DecimalDigits[i] = c) - 1

\* int(s) raises ValueError
int_raises(s) ==
    s = <<>> \/ \E i \in 1..Len(s) : \A d \in 1..10 : DecimalDigits[d] # s[i]

RECURSIVE int(_)
\* int(s) for a line of decimal digits
int(s) ==
    IF s = <<>> THEN 0
    ELSE 10 * int(SubSeq(s, 1, Len(s) - 1)) + DigitValue(s[Len(s)])

\* lines the user may type at the count prompt
CountLines == {<<DecimalDigits[n + 1]>> : n \in 0..MaxNumWords} \cup {<<"x">>, <<>>}

----------------------------------------------------------------------------
(* Inputs of the model *)

\* anchor words of the query specification
AnchorWords == SeqsUpTo(WordChars, MaxWordLen) \ {<<>>}

\* the anchor word of a whole run
SampleWords == {<<"a">>}

\* phrase records of the cleaner specification: token lists over two
\* dictionary words and the empty text, and shorter ones with an unknown word
TokenTexts == {"a", "man", ""}
UnknownTexts == {"man", "zzq"}
TokenLists ==
    SeqsUpTo(TokenTexts, MaxTokens) \cup SeqsUpTo(UnknownTexts, MaxTokens - 1)
MatchCounts == {1, 2}
PhraseRecords ==
    [tks : TokenLists,
     sc : {Threshold, Threshold + 1},
     mc : MatchCounts]

\* phrase records the service may answer a whole run with
SamplePhrases ==
    { [tks |-> <<"as", "man">>, sc |-> 5000, mc |-> 2],
      [tks |-> <<"a", "man">>, sc |-> 5000, mc |-> 1],
      [tks |-> <<"man", "man">>, sc |-> 5000, mc |-> 2],
      [tks |-> <<"a", "as", "man">>, sc |-> 5000, mc |-> 1],
      [tks |-> <<"", "man">>, sc |-> 5000, mc |-> 1],
      [tks |-> <<"as", "man">>, sc |-> Threshold, mc |-> 2],
      [tks |-> <<"man", "a">>, sc |-> 5000, mc |-> 0] }

\* what requests.get(...).json() may do: raise, or give a decoded body
HttpOutcomes ==
    {[kind |-> "ConnectionError"], [kind |-> "JSONDecodeError"],
     [kind |-> "no_phrases_key"]}
    \cup {[kind |-> "ok", phrases |-> l] : l \in SeqsUpTo(SamplePhrases, MaxPhrases)}

\* both are subclasses of requests.exceptions.RequestException
RequestExceptions == {"ConnectionError", "JSONDecodeError"}

\* lists of (text, weight) pairs given to one stage
StageTexts == {"a", "as", "man", "a as"}
StagePairs == SeqsUpTo(StageTexts \X (0..MaxCount), MaxPairs)

NoParams == [corpus |-> "", query |-> <<>>]

----------------------------------------------------------------------------
(* The run *)

NoConsole == typed = <<>> /\ prompts = 0 /\ invalid_msgs = 0

NoLookup ==
    /\ requests = 0 /\ logged = 0 /\ lookup_failed = FALSE
    /\ params = NoParams /\ response_list = <<>>

NoResults ==
    /\ score = <<>> /\ scores_with_result = <<>> /\ printed = <<>>
    /\ returned = <<>> /\ fault = "none"

\* before either entry point is called
Init ==
    /\ pc = "start" /\ entry = "none"
    /\ input_word = <<>> /\ list_position = "unset" /\ num_words = 0
    /\ NoConsole /\ NoLookup
    /\ responses = <<>> /\ answer = <<>> /\ NoResults

\* run_with_input(phrase), up to the lookup
RunWithInput ==
    /\ pc = "start"
    /\ \E w \in SampleWords : input_word' = w
    /\ entry' = "run_with_input"
    /\ list_position' = "before" /\ num_words' = 1
    /\ pc' = "get_response_list"
    /\ UNCHANGED <<typed, prompts, invalid_msgs, requests, logged,
                   lookup_failed, params, response_list, responses, answer,
                   score, scores_with_result, printed, returned, fault>>

\* run_module(), line 184
InputWord ==
    /\ pc = "start"
    /\ \E w \in SampleWords : input_word' = w
    /\ entry' = "run_module"
    /\ pc' = "before_or_after"
    /\ UNCHANGED <<list_position, num_words, typed, prompts, invalid_msgs,
                   requests, logged, lookup_failed, params, response_list,
                   responses, answer, score, scores_with_result, printed,
                   returned, fault>>

\* one turn of the loop of before_or_after
BeforeOrAfter ==
    /\ pc = "before_or_after"
    /\ prompts < MaxPrompts
    /\ \E line \in TypedLines :
        /\ typed' = Append(typed, line)
        /\ prompts' = prompts + 1
        /\ IF lower(line) = <<"b">>
           THEN list_position' = "before" /\ pc' = "how_many_more_words"
                /\ UNCHANGED invalid_msgs
           ELSE IF lower(line) = <<"a">>
           THEN list_position' = "after" /\ pc' = "how_many_more_words"
                /\ UNCHANGED invalid_msgs
           ELSE invalid_msgs' = invalid_msgs + 1
                /\ UNCHANGED <<list_position, pc>>
    /\ UNCHANGED <<entry, input_word, num_words, requests, logged, lookup_failed,
                   params, response_list, responses, answer, score,
                   scores_with_result, printed, returned, fault>>

\* how_many_more_words()
HowManyMoreWords ==
    /\ pc = "how_many_more_words"
    /\ \E line \in CountLines :
        IF int_raises(line)
        THEN fault' = "ValueError" /\ pc' = "fault" /\ UNCHANGED num_words
        ELSE num_words' = int(line) /\ pc' = "get_response_list"
             /\ UNCHANGED fault
    /\ UNCHANGED <<entry, input_word, list_position, typed, prompts,
                   invalid_msgs, requests, logged, lookup_failed, params,
                   response_list, responses, answer, score, scores_with_result,
                   printed, returned>>

\* get_response_list(word, position, num_words)
GetResponseList ==
    /\ pc = "get_response_list"
    /\ params' = QueryParams(input_word, list_position, num_words)
    /\ requests' = requests + 1
    /\ \E out \in HttpOutcomes :
        IF out.kind \in RequestExceptions
        THEN /\ logged' = logged + 1
             /\ lookup_failed' = TRUE
             /\ response_list' = <<>>
             /\ pc' = "collect_responses"
             /\ UNCHANGED fault
        ELSE IF out.kind = "no_phrases_key"
        THEN /\ fault' = "KeyError" /\ pc' = "fault"
             /\ UNCHANGED <<logged, lookup_failed, response_list>>
        ELSE /\ response_list' = out.phrases
             /\ pc' = "collect_responses"
             /\ UNCHANGED <<logged, lookup_failed, fault>>
    /\ UNCHANGED <<entry, input_word, list_position, num_words, typed,
                   prompts, invalid_msgs, responses, answer, score,
                   scores_with_result, printed, returned>>

\* responses = collect_responses(response_list, position, num_words)
CollectResponses ==
    /\ pc = "collect_responses"
    /\ responses' = collect_responses(response_list, list_position, num_words)
    /\ pc' = "lemmatize_and_sum"
    /\ UNCHANGED <<entry, input_word, list_position, num_words, typed,
                   prompts, invalid_msgs, requests, logged, lookup_failed,
                   params, response_list, answer, score, scores_with_result,
                   printed, returned, fault>>

\* answer = lemmatize_and_sum(responses)
LemmatizeAndSum ==
    /\ pc = "lemmatize_and_sum"
    /\ answer' = lemmatize_and_sum(responses)
    /\ pc' = "score_generator"
    /\ UNCHANGED <<entry, input_word, list_position, num_words, typed,
                   prompts, invalid_msgs, requests, logged, lookup_failed,
                   params, response_list, responses, score, scores_with_result,
                   printed, returned, fault>>

\* score = score_generator(answer); run_with_input returns it
ScoreGenerator ==
    /\ pc = "score_generator"
    /\ IF score_generator_raises(answer)
       THEN /\ fault' = "ZeroDivisionError" /\ pc' = "fault"
            /\ UNCHANGED <<score, returned>>
       ELSE /\ score' = score_generator(answer)
            /\ IF entry = "run_with_input"
               THEN returned' = score' /\ pc' = "done"
               ELSE pc' = "add_stopword_result" /\ UNCHANGED returned
            /\ UNCHANGED fault
    /\ UNCHANGED <<entry, input_word, list_position, num_words, typed,
                   prompts, invalid_msgs, requests, logged, lookup_failed,
                   params, response_list, responses, answer, scores_with_result,
                   printed>>

\* run_module, lines 191-194: annotate, print, return
AddStopwordResult ==
    /\ pc = "add_stopword_result"
    /\ scores_with_result' = add_stopword_result(score)
    /\ printed' = results_str(scores_with_result')
    /\ returned' = scores_with_result'
    /\ pc' = "done"
    /\ UNCHANGED <<entry, input_word, list_position, num_words, typed,
                   prompts, invalid_msgs, requests, logged, lookup_failed,
                   params, response_list, responses, answer, score, fault>>

Next ==
    \/ RunWithInput
    \/ InputWord
    \/ BeforeOrAfter
    \/ HowManyMoreWords
    \/ GetResponseList
    \/ CollectResponses
    \/ LemmatizeAndSum
    \/ ScoreGenerator
    \/ AddStopwordResult

Spec == Init /\ [][Next]_vars

----------------------------------------------------------------------------
(* get_response_list called with any word, position and count *)

InitQuery ==
    /\ pc = "get_response_list" /\ entry = "run_module"
    /\ input_word \in AnchorWords
    /\ list_position \in Positions
    /\ num_words \in 0..MaxNumWords
    /\ NoConsole /\ NoLookup
    /\ responses = <<>> /\ answer = <<>> /\ NoResults

NextQuery == GetResponseList

SpecQuery == InitQuery /\ [][NextQuery]_vars

----------------------------------------------------------------------------
(* collect_responses called with any response, position and count *)

InitClean ==
    /\ pc = "collect_responses" /\ entry = "run_module"
    /\ input_word \in SampleWords
    /\ list_position \in Positions
    /\ num_words \in 0..MaxNumWords
    /\ NoConsole
    /\ requests = 0 /\ logged = 0 /\ lookup_failed = FALSE /\ params = NoParams
    /\ response_list \in SeqsUpTo(PhraseRecords, MaxRecords)
    /\ responses = <<>> /\ answer = <<>> /\ NoResults

NextClean == CollectResponses

SpecClean == InitClean /\ [][NextClean]_vars

----------------------------------------------------------------------------------------------------------------------------------------
(* lemmatize_and_sum called with any list of pairs *)

InitAgg ==
    /\ pc = "lemmatize_and_sum" /\ entry = "run_module"
    /\ input_word \in SampleWords
    /\ list_position = "before" /\ num_words = 1
    /\ NoConsole /\ NoLookup /\ NoResults
    /\ responses \in StagePairs /\ answer = <<>>

NextAgg == LemmatizeAndSum

SpecAgg == InitAgg /\ [][NextAgg]_vars

----------------------------------------------------------------------------
(* score_generator called with any list of pairs, and the stage of        *)
(* run_module that follows it                                              *)

InitScore ==
    /\ pc = "score_generator" /\ entry = "run_module"
    /\ input_word \in SampleWords
    /\ list_position = "before" /\ num_words = 1
    /\ NoConsole /\ NoLookup /\ NoResults
    /\ responses = <<>> /\ answer \in StagePairs

NextScore == ScoreGenerator \/ AddStopwordResult

SpecScore == InitScore /\ [][NextScore]_vars

----------------------------------------------------------------------------
(* Properties *)

\* n placeholders, each a token of its own, separated by single spaces
SpacedPlaceholders(n) == JoinChars([i \in 1..n |-> <<"?">>])

ClaimedPattern(word, position, n) ==
    IF position = "before"
    THEN SpacedPlaceholders(n) \o <<" ">> \o word
    ELSE word \o <<" ">> \o SpacedPlaceholders(n)

\* C1: once the request is made, the pattern that was percent-encoded is the
\* anchor word with num_words placeholders separated by single spaces, before
\* or after it as the position says, and decoding the query gives that pattern.
C1_QueryHasSpacedPlaceholders ==
    requests > 0 =>
        /\ QueryPattern(input_word, list_position, num_words)
               = ClaimedPattern(input_word, list_position, num_words)
        /\ unquote(params.query)
               = ClaimedPattern(input_word, list_position, num_words)

\* the tokens of a record that make its candidate: all after the first, or the
\* (at most n) tokens just before the last
TakenTokens(r, position, n) ==
    IF position = "after"
    THEN SubSeq(r.tks, 2, Len(r.tks))
    ELSE SubSeq(r.tks, Len(r.tks) - Min(n, Len(r.tks) - 1), Len(r.tks) - 1)

Passes(r, position, n) ==
    /\ r.sc > Threshold
    /\ \A j \in 1..Len(TakenTokens(r, position, n)) :
           TakenTokens(r, position, n)[j] \in DictionaryWords

\* the records among the first i of the response that pass
PassingUpTo(i) ==
    {j \in 1..i : Passes(response_list[j], list_position, num_words)}

\* the record the k-th candidate comes from
SourceOf(k) ==
    response_list[CHOOSE i \in 1..Len(response_list) :
        /\ Passes(response_list[i], list_position, num_words)
        /\ Cardinality(PassingUpTo(i)) = k]

DictionaryTexts == {JoinTexts(t) : t \in SeqsUpTo(DictionaryWords, MaxTokens)}

Cleaned == pc = "lemmatize_and_sum"

\* C2: after collect_responses, there is one candidate per record whose score
\* is above 0.001 and whose taken tokens are all dictionary words, and none for
\* any other record; every candidate text is a join of dictionary words.
C2_EmitsIffScoreAndDictionary ==
    Cleaned =>
        /\ Len(responses) = Cardinality(PassingUpTo(Len(response_list)))
        /\ \A k \in 1..Len(responses) : responses[k][1] \in DictionaryTexts

\* a record scored above the threshold is dropped for an empty-string token
C2_Witness ==
    /\ Cleaned
    /\ Len(response_list) = 1
    /\ response_list[1].sc > Threshold
    /\ \E j \in 1..Len(TakenTokens(response_list[1], list_position, num_words)) :
           TakenTokens(response_list[1], list_position, num_words)[j] = ""
    /\ responses = <<>>

\* C3 as stated: each candidate is the join of all tokens after the first
\* (position after), or of exactly the num_words tokens just before the last
\* token (position before), with the record's match-count.
C3_ExactlyNumWordsTokens ==
    Cleaned =>
        /\ Len(responses) = Cardinality(PassingUpTo(Len(response_list)))
        /\ \A k \in 1..Len(responses) :
            LET r == SourceOf(k)
                L == Len(r.tks)
            IN  /\ responses[k][2] = r.mc
                /\ IF list_position = "after"
                   THEN responses[k][1] = JoinTexts(SubSeq(r.tks, 2, L))
                   ELSE /\ num_words = 0 \/ L >= num_words + 1
                        /\ responses[k][1] = JoinTexts(
                               [j \in 1..num_words |-> r.tks[L - 1 - num_words + j]])

\* C3 (amended): each candidate is the join of all tokens after the first
\* (position after), or of the min(num_words, L - 1) tokens just before the
\* last of the record's L tokens (position before; none when L = 0), in their
\* order, with the record's match-count unchanged.
C3_TokensClippedToRecord ==
    Cleaned =>
        /\ Len(responses) = Cardinality(PassingUpTo(Len(response_list)))
        /\ \A k \in 1..Len(responses) :
            responses[k] =
                <<JoinTexts(TakenTokens(SourceOf(k), list_position, num_words)),
                  SourceOf(k).mc>>

\* a three-token record asked for two wildcards before the anchor gives its
\* first two tokens, in their order, joined by one space
C3_Witness ==
    /\ Cleaned
    /\ list_position = "before" /\ num_words = 2
    /\ Len(response_list) = 1
    /\ response_list[1].tks = <<"a", "man", "a">>
    /\ responses = << <<"a man", response_list[1].mc>> >>

\* C4: after lemmatize_and_sum, the output is in non-increasing order of
\* weight, its texts are distinct, each weight is the sum of the weights of the
\* input pairs with that lemma, every input lemma has a group, and the sum of
\* the output weights is the sum of the input weights.
C4_SortedAndSumPreserved ==
    pc = "score_generator" =>
        /\ \A i \in 1..(Len(answer) - 1) : answer[i][2] >= answer[i + 1][2]
        /\ \A i, j \in 1..Len(answer) : i # j => answer[i][1] # answer[j][1]
        /\ \A i \in 1..Len(answer) :
               answer[i][2] = SumWeights(SelectSeq(responses,
                                  LAMBDA w : lemmatize(w[1]) = answer[i][1]))
        /\ \A j \in 1..Len(responses) :
               \E i \in 1..Len(answer) : answer[i][1] = lemmatize(responses[j][1])
        /\ SumWeights(answer) = SumWeights(responses)

\* three pairs fall into two groups and the merged group overtakes the first
C4_Witness ==
    /\ pc = "score_generator"
    /\ Len(responses) = 3 /\ Len(answer) = 2
    /\ answer[1][1] # lemmatize(responses[1][1])
    /\ answer[1][2] > answer[2][2]

\* C5: at most one request is made; after a failed lookup one error is logged,
\* no fault occurs, every later stage handles and yields the empty list, and
\* the run is either done or able to go on.
C5_LookupFailureGivesNoCandidates ==
    /\ requests <= 1
    /\ lookup_failed =>
        /\ requests = 1 /\ logged = 1 /\ fault = "none"
        /\ response_list = <<>> /\ responses = <<>> /\ answer = <<>>
        /\ score = <<>> /\ scores_with_result = <<>> /\ printed = <<>>
        /\ returned = <<>>
        /\ pc = "done" \/ ENABLED Next

\* an interactive run whose lookup failed has returned
C5_Witness ==
    /\ lookup_failed /\ entry = "run_module" /\ pc = "done"
    /\ logged = 1 /\ returned = <<>>

Scored == pc # "score_generator"

\* C6 as stated: score_generator called with weights that sum to 0 ends in a
\* division-by-zero fault.
C6_ZeroTotalAlwaysFaults ==
    (Scored /\ SumWeights(answer) = 0) => fault = "ZeroDivisionError"

\* C6 (amended): score_generator ends in a division-by-zero fault, returning no
\* list, exactly when its input is non-empty with weights that sum to 0; given
\* the empty list it returns the empty list.
C6_NonEmptyZeroTotalFaults ==
    Scored =>
        /\ fault = "ZeroDivisionError" <=> (answer # <<>> /\ SumWeights(answer) = 0)
        /\ fault = "ZeroDivisionError" =>
               pc = "fault" /\ score = <<>> /\ returned = <<>>
        /\ answer = <<>> => fault = "none" /\ score = <<>>

\* two pairs of weight 0 make score_generator fault
C6_Witness ==
    /\ Len(answer) = 2 /\ SumWeights(answer) = 0
    /\ pc = "fault" /\ fault = "ZeroDivisionError"

RECURSIVE SumFractions(_)
SumFractions(fs) ==
    IF fs = <<>> THEN [num |-> 0, den |-> 1]
    ELSE LET h == Head(fs)
             t == SumFractions(Tail(fs))
         IN  [num |-> h.num * t.den + t.num * h.den, den |-> h.den * t.den]

\* C7: for a non-empty input of positive total weight, score_generator returns
\* a list of the same length with the same texts in the same order, each
\* percentage is weight / total * 100, and the percentages sum to 100.
C7_PercentagesSumTo100 ==
    (Scored /\ answer # <<>> /\ SumWeights(answer) > 0) =>
        /\ fault = "none"
        /\ Len(score) = Len(answer)
        /\ \A i \in 1..Len(score) :
            /\ score[i][1] = answer[i][1]
            /\ score[i][2].den # 0
            /\ score[i][2].num * SumWeights(answer)
                   = 100 * answer[i][2] * score[i][2].den
        /\ LET t == SumFractions([i \in 1..Len(score) |-> score[i][2]])
           IN  t.den # 0 /\ t.num = 100 * t.den

\* three pairs of unequal weights are scored
C7_Witness ==
    /\ pc = "add_stopword_result"
    /\ Len(score) = 3
    /\ answer[1][2] # answer[2][2]
    /\ SumWeights(answer) = 3

IsValidLine(line) == line \in {<<"b">>, <<"B">>, <<"a">>, <<"A">>}

\* C8: in an interactive run every line read was prompted for, every invalid
\* line printed one message, no line before the last was valid, the loop is
\* still running exactly when no valid line has come, and it returned 'before'
\* for b or B and 'after' for a or A; typing x then b prompts twice, prints
\* one message and returns 'before'.
C8_RepromptUntilValid ==
    entry = "run_module" =>
        /\ prompts = Len(typed)
        /\ invalid_msgs = Cardinality({i \in 1..Len(typed) : ~IsValidLine(typed[i])})
        /\ \A i \in 1..(Len(typed) - 1) : ~IsValidLine(typed[i])
        /\ pc = "before_or_after" <=> \A i \in 1..Len(typed) : ~IsValidLine(typed[i])
        /\ pc # "before_or_after" =>
               list_position = IF typed[Len(typed)] \in {<<"b">>, <<"B">>}
                               THEN "before" ELSE "after"
        /\ typed = << <<"x">>, <<"b">> >> =>
               /\ prompts = 2 /\ invalid_msgs = 1
               /\ list_position = "before" /\ pc # "before_or_after"

\* x then b was typed and the loop has returned 'before'
C8_Witness ==
    /\ typed = << <<"x">>, <<"b">> >>
    /\ pc = "how_many_more_words"
    /\ list_position = "before" /\ invalid_msgs = 1

\* the printed line of a candidate without the suffix
LineWithoutSuffix(w) == "  " \o w[1] \o " " \o Format2f(w[2]) \o "%"

\* C9: after the interactive run's last stage, each returned candidate keeps
\* its text and percentage, its flag is false exactly when its whole text is a
\* stopword, and its printed line ends in " STOPWORD" exactly when the flag is
\* false.
C9_FlagFalseIffStopword ==
    pc = "done" =>
        /\ Len(returned) = Len(score) /\ Len(printed) = Len(score)
        /\ \A i \in 1..Len(returned) :
            /\ returned[i][1] = score[i][1] /\ returned[i][2] = score[i][2]
            /\ returned[i][3] = FALSE <=> returned[i][1] \in StopWords
            /\ printed[i] \in {LineWithoutSuffix(returned[i]),
                               LineWithoutSuffix(returned[i]) \o " STOPWORD"}
            /\ printed[i] = LineWithoutSuffix(returned[i]) \o " STOPWORD"
                   <=> returned[i][3] = FALSE

\* a stopword and a two-word text made of stopwords are both annotated
C9_Witness ==
    /\ pc = "done"
    /\ \E i, j \in 1..Len(returned) :
        /\ returned[i][1] = "a" /\ returned[i][3] = FALSE
        /\ returned[j][1] = "a as" /\ returned[j][3] = TRUE

\* C10: the list an entry point returns has pairwise distinct texts and
\* non-increasing percentages, one entry per distinct lemma of the cleaned
\* candidates, and the texts of the aggregated list in the same order.
C10_ReturnedDistinctAndOrdered ==
    pc = "done" =>
        /\ \A i, j \in 1..Len(returned) : i # j => returned[i][1] # returned[j][1]
        /\ \A i \in 1..Len(returned) : returned[i][2].den > 0
        /\ \A i \in 1..(Len(returned) - 1) :
               returned[i][2].num * returned[i + 1][2].den
                   >= returned[i + 1][2].num * returned[i][2].den
        /\ Len(returned)
               = Cardinality({lemmatize(responses[i][1]) : i \in 1..Len(responses)})
        /\ Len(returned) = Len(answer)
        /\ \A i \in 1..Len(returned) : returned[i][1] = answer[i][1]

\* three cleaned candidates come back as two, the merged lemma first
C10_Witness ==
    /\ pc = "done" /\ entry = "run_module"
    /\ Len(responses) = 3 /\ Len(returned) = 2
    /\ returned[1][1] # lemmatize(responses[1][1])

====
